---- MODULE Spec2Model ----
(***************************************************************************)
(* ArvDevice (src/src/arvdevice.c): the abstract device of a camera access *)
(* layer.  The module models the public entry points of arvdevice.c: the   *)
(* forwarding of register / memory / stream calls to the virtual table of  *)
(* the concrete device, the name based feature access built on the genicam *)
(* node tree, and the emission of the control-lost signal.                 *)
(*                                                                         *)
(* Conventions                                                             *)
(*   - a C pointer is the string "NULL" or the name of the object it       *)
(*     points to;                                                          *)
(*   - a C string result is a record [null, s]: NullStr is the NULL        *)
(*     pointer, Str("") the empty string, and the two differ;              *)
(*   - a double is represented by the integer 2*x (0.0 is 0, 1.5 is 3);    *)
(*   - every operation records the call in req, its return value (and out  *)
(*     parameters) in ret, the virtual functions of the concrete device it *)
(*     invoked in trace, and the signal handlers it ran in notified.       *)
(***************************************************************************)
EXTENDS Integers, Sequences, FiniteSets, TLC

\* ---------------------------------------------------------------- bounds
BigInt == 5         \* the largest gint64 value passed to a setter
MaxAddr == 1        \* register / memory addresses are 0..MaxAddr
MaxSize == 2        \* memory block sizes are 0..MaxSize
MaxInvoked == 2     \* handler invocations counted per loss episode
NumObservers == 2   \* handlers that may be connected to "control-lost"

VARIABLES
    device,     \* the ArvDevice * passed to every call: "dev" or "NULL"
    genicam,    \* what the concrete device's get_genicam returns: "gc" or "NULL"
    nodes,      \* the genicam feature tree: feature name -> node
    handlers,   \* handlers connected to the "control-lost" signal
    invoked,    \* handler -> invocations in the current loss episode
    req,        \* the last call and its arguments
    ret,        \* its return value / out parameters
    trace,      \* the virtual functions it invoked, in order, with arguments
    notified    \* the handlers it ran

vars == <<device, genicam, nodes, handlers, invoked, req, ret, trace, notified>>

\* ------------------------------------------------------- input domains
IntVals == {0, 1, BigInt}
FloatVals == {0, 3}
StrVals == {"Mono8", "RGB8", ""}
Addrs == 0 .. MaxAddr
Sizes == 0 .. MaxSize
RegVals == {0, 7}
Observers == 1 .. NumObservers
Names == {"Width", "PixelFormat", "ReverseX", "Gain", "DeviceUserID",
          "AcquisitionStart", "Missing"}

NoneNotified == [o \in Observers |-> 0]

NullStr == [null |-> TRUE, s |-> ""]
Str(s) == [null |-> FALSE, s |-> s]

\* --------------------------------------------------- the feature tree
EntryNames == {"Mono8", "RGB8"}
EntryValue == [e \in EntryNames |-> IF e = "Mono8" THEN 0 ELSE 1]

Node(variant, ival, bval, fval, sval, min, max) ==
    [variant |-> variant, ival |-> ival, bval |-> bval, fval |-> fval,
     sval |-> sval, executed |-> FALSE, min |-> min, max |-> max]

InitNodes ==
    [n \in Names \ {"Missing"} |->
        CASE n = "Width"            -> Node("Integer", 1, FALSE, 0, "", 0, 8)
          [] n = "PixelFormat"      -> Node("Enumeration", 0, FALSE, 0, "", 0, 0)
          [] n = "ReverseX"         -> Node("Boolean", 0, FALSE, 0, "", 0, 0)
          [] n = "Gain"             -> Node("Float", 0, FALSE, 3, "", 0, 6)
          [] n = "DeviceUserID"     -> Node("String", 0, FALSE, 0, "", 0, 0)
          [] n = "AcquisitionStart" -> Node("Command", 0, FALSE, 0, "", 0, 0)]

\* GObject type checks: a NULL pointer is an instance of nothing.
ARV_IS_DEVICE(dev) == dev # "NULL"
ARV_IS_GC(gc) == gc # "NULL"
IsVariant(nds, node, variant) == node # "NULL" /\ nds[node].variant = variant
ARV_IS_GC_INTEGER(nds, node) == IsVariant(nds, node, "Integer")
ARV_IS_GC_ENUMERATION(nds, node) == IsVariant(nds, node, "Enumeration")
ARV_IS_GC_BOOLEAN(nds, node) == IsVariant(nds, node, "Boolean")
ARV_IS_GC_FLOAT(nds, node) == IsVariant(nds, node, "Float")
ARV_IS_GC_STRING(nds, node) == IsVariant(nds, node, "String")
ARV_IS_GC_COMMAND(nds, node) == IsVariant(nds, node, "Command")

\* The node classes (arvgcinteger.h ... arvgccommand.h), consumed by the device.
arv_gc_get_node(nds, feature) == IF feature \in DOMAIN nds THEN feature ELSE "NULL"

arv_gc_integer_set_value(nds, node, value) == [nds EXCEPT ![node].ival = value]
arv_gc_integer_get_value(nds, node) == nds[node].ival
arv_gc_integer_get_min(nds, node) == nds[node].min
arv_gc_integer_get_max(nds, node) == nds[node].max

arv_gc_enumeration_set_int_value(nds, node, value) == [nds EXCEPT ![node].ival = value]
arv_gc_enumeration_get_int_value(nds, node) == nds[node].ival
arv_gc_enumeration_set_string_value(nds, node, value) ==
    IF value \in EntryNames THEN [nds EXCEPT ![node].ival = EntryValue[value]] ELSE nds
arv_gc_enumeration_get_string_value(nds, node) ==
    IF \E e \in EntryNames : EntryValue[e] = nds[node].ival
    THEN Str(CHOOSE e \in EntryNames : EntryValue[e] = nds[node].ival)
    ELSE NullStr

arv_gc_boolean_set_value(nds, node, value) == [nds EXCEPT ![node].bval = (value # 0)]
arv_gc_boolean_get_value(nds, node) == IF nds[node].bval THEN 1 ELSE 0

arv_gc_float_set_value(nds, node, value) == [nds EXCEPT ![node].fval = value]
arv_gc_float_get_value(nds, node) == nds[node].fval
arv_gc_float_get_min(nds, node) == nds[node].min
arv_gc_float_get_max(nds, node) == nds[node].max

arv_gc_string_set_value(nds, node, value) == [nds EXCEPT ![node].sval = value]
arv_gc_string_get_value(nds, node) == Str(nds[node].sval)

arv_gc_command_execute(nds, node) == [nds EXCEPT ![node].executed = TRUE]

\* ------------------------------------------------------------- Init
Init ==
    /\ device \in {"dev", "NULL"}
    /\ genicam \in {"gc", "NULL"}
    /\ nodes = InitNodes
    /\ handlers = {}
    /\ invoked = NoneNotified
    /\ req = [op |-> "none"]
    /\ ret = "void"
    /\ trace = <<>>
    /\ notified = NoneNotified

\* A call that has returned: what it was, what it gave back, what it invoked.
Returned(call, value, vcalls) ==
    /\ req' = call
    /\ ret' = value
    /\ trace' = vcalls

\* ------------------------------------------- arv_device_get_genicam
\* Mutant: the ARV_IS_DEVICE check is dropped.
get_genicam_unchecked(dev) ==
    [value |-> genicam, trace |-> <<[op |-> "get_genicam", result |-> genicam]>>]

\* [value, trace]: the genicam interface, and the virtual calls made for it.
arv_device_get_genicam(dev) ==
    IF ~ARV_IS_DEVICE(dev)
    THEN [value |-> "NULL", trace |-> <<>>]
    ELSE [value |-> genicam, trace |-> <<[op |-> "get_genicam", result |-> genicam]>>]

\* [value, trace]: the node of the feature, "NULL" if not found.
arv_device_get_feature(dev, nds, feature) ==
    LET gc == arv_device_get_genicam(dev) IN
    IF ~ARV_IS_GC(gc.value)
    THEN [value |-> "NULL", trace |-> gc.trace]
    ELSE [value |-> arv_gc_get_node(nds, feature), trace |-> gc.trace]

\* ------------------------------------------- generic feature access
\* Each operator gives the effect of the C function of the same name on the
\* tree nds: [nodes, trace] for a setter, [value, trace] for a getter.

arv_device_execute_command(dev, nds, feature) ==
    LET gc == arv_device_get_genicam(dev) IN
    IF ~ARV_IS_GC(gc.value)
    THEN [nodes |-> nds, trace |-> gc.trace]
    ELSE LET node == arv_gc_get_node(nds, feature) IN
         [nodes |-> IF ARV_IS_GC_COMMAND(nds, node)
                    THEN arv_gc_command_execute(nds, node)
                    ELSE nds,
          trace |-> gc.trace]

\* Mutant: an enumeration is not recognised, only a string node is set.
set_string_string_only(dev, nds, feature, value) ==
    LET f == arv_device_get_feature(dev, nds, feature)
        node == f.value
    IN  [nodes |-> IF ARV_IS_GC_STRING(nds, node)
                   THEN arv_gc_string_set_value(nds, node, value)
                   ELSE nds,
         trace |-> f.trace]

arv_device_set_string_feature_value(dev, nds, feature, value) ==
    LET f == arv_device_get_feature(dev, nds, feature)
        node == f.value
    IN  [nodes |-> IF ARV_IS_GC_ENUMERATION(nds, node)
                   THEN arv_gc_enumeration_set_string_value(nds, node, value)
                   ELSE IF ARV_IS_GC_STRING(nds, node)
                   THEN arv_gc_string_set_value(nds, node, value)
                   ELSE nds,
         trace |-> f.trace]

\* Mutant: an empty string is returned where the code returns NULL.
get_string_empty_default(dev, nds, feature) ==
    LET f == arv_device_get_feature(dev, nds, feature)
        node == f.value
    IN  [value |-> IF ARV_IS_GC_ENUMERATION(nds, node)
                   THEN arv_gc_enumeration_get_string_value(nds, node)
                   ELSE IF ARV_IS_GC_STRING(nds, node)
                   THEN arv_gc_string_get_value(nds, node)
                   ELSE Str(""),
         trace |-> f.trace]

arv_device_get_string_feature_value(dev, nds, feature) ==
    LET f == arv_device_get_feature(dev, nds, feature)
        node == f.value
    IN  [value |-> IF ARV_IS_GC_ENUMERATION(nds, node)
                   THEN arv_gc_enumeration_get_string_value(nds, node)
                   ELSE IF ARV_IS_GC_STRING(nds, node)
                   THEN arv_gc_string_get_value(nds, node)
                   ELSE NullStr,
         trace |-> f.trace]

\* Mutant: the boolean branch is missing.
set_integer_no_boolean(dev, nds, feature, value) ==
    LET f == arv_device_get_feature(dev, nds, feature)
        node == f.value
    IN  [nodes |-> IF ARV_IS_GC_INTEGER(nds, node)
                   THEN arv_gc_integer_set_value(nds, node, value)
                   ELSE IF ARV_IS_GC_ENUMERATION(nds, node)
                   THEN arv_gc_enumeration_set_int_value(nds, node, value)
                   ELSE nds,
         trace |-> f.trace]

arv_device_set_integer_feature_value(dev, nds, feature, value) ==
    LET f == arv_device_get_feature(dev, nds, feature)
        node == f.value
    IN  [nodes |-> IF ARV_IS_GC_INTEGER(nds, node)
                   THEN arv_gc_integer_set_value(nds, node, value)
                   ELSE IF ARV_IS_GC_ENUMERATION(nds, node)
                   THEN arv_gc_enumeration_set_int_value(nds, node, value)
                   ELSE IF ARV_IS_GC_BOOLEAN(nds, node)
                   THEN arv_gc_boolean_set_value(nds, node, value)
                   ELSE nds,
         trace |-> f.trace]

\* Mutant: the enumeration branch is missing.
get_integer_no_enumeration(dev, nds, feature) ==
    LET f == arv_device_get_feature(dev, nds, feature)
        node == f.value
    IN  [value |-> IF ARV_IS_GC_INTEGER(nds, node)
                   THEN arv_gc_integer_get_value(nds, node)
                   ELSE IF ARV_IS_GC_BOOLEAN(nds, node)
                   THEN arv_gc_boolean_get_value(nds, node)
                   ELSE 0,
         trace |-> f.trace]

arv_device_get_integer_feature_value(dev, nds, feature) ==
    LET f == arv_device_get_feature(dev, nds, feature)
        node == f.value
    IN  [value |-> IF ARV_IS_GC_INTEGER(nds, node)
                   THEN arv_gc_integer_get_value(nds, node)
                   ELSE IF ARV_IS_GC_ENUMERATION(nds, node)
                   THEN arv_gc_enumeration_get_int_value(nds, node)
                   ELSE IF ARV_IS_GC_BOOLEAN(nds, node)
                   THEN arv_gc_boolean_get_value(nds, node)
                   ELSE 0,
         trace |-> f.trace]

\* What the caller's min and max variables hold before a bounds call.
Uninitialized == [min |-> 0 - 7, max |-> 9]

\* Mutant: the outputs are zeroed when the node is no integer.
get_integer_bounds_zeroing(dev, nds, feature, ptr, cell) ==
    LET f == arv_device_get_feature(dev, nds, feature)
        node == f.value
    IN  [value |-> IF ARV_IS_GC_INTEGER(nds, node)
                   THEN [min |-> IF ptr.min THEN arv_gc_integer_get_min(nds, node)
                                 ELSE cell.min,
                         max |-> IF ptr.max THEN arv_gc_integer_get_max(nds, node)
                                 ELSE cell.max]
                   ELSE [min |-> IF ptr.min THEN 0 ELSE cell.min,
                         max |-> IF ptr.max THEN 0 ELSE cell.max],
         trace |-> f.trace]

\* cell = [min, max]: the caller's variables before the call; ptr = [min, max]:
\* whether the pointer passed for each is non-NULL.  value: the variables after.
arv_device_get_integer_feature_bounds(dev, nds, feature, ptr, cell) ==
    LET f == arv_device_get_feature(dev, nds, feature)
        node == f.value
    IN  [value |-> IF ARV_IS_GC_INTEGER(nds, node)
                   THEN [min |-> IF ptr.min THEN arv_gc_integer_get_min(nds, node)
                                 ELSE cell.min,
                         max |-> IF ptr.max THEN arv_gc_integer_get_max(nds, node)
                                 ELSE cell.max]
                   ELSE cell,
         trace |-> f.trace]

\* Mutant: the node is checked for NULL only, not for being a float.
set_float_any_node(dev, nds, feature, value) ==
    LET f == arv_device_get_feature(dev, nds, feature)
        node == f.value
    IN  [nodes |-> IF node # "NULL"
                   THEN arv_gc_float_set_value(nds, node, value)
                   ELSE nds,
         trace |-> f.trace]

arv_device_set_float_feature_value(dev, nds, feature, value) ==
    LET f == arv_device_get_feature(dev, nds, feature)
        node == f.value
    IN  [nodes |-> IF ARV_IS_GC_FLOAT(nds, node)
                   THEN arv_gc_float_set_value(nds, node, value)
                   ELSE nds,
         trace |-> f.trace]

arv_device_get_float_feature_value(dev, nds, feature) ==
    LET f == arv_device_get_feature(dev, nds, feature)
        node == f.value
    IN  [value |-> IF ARV_IS_GC_FLOAT(nds, node)
                   THEN arv_gc_float_get_value(nds, node)
                   ELSE 0,
         trace |-> f.trace]

arv_device_get_float_feature_bounds(dev, nds, feature, ptr, cell) ==
    LET f == arv_device_get_feature(dev, nds, feature)
        node == f.value
    IN  [value |-> IF ARV_IS_GC_FLOAT(nds, node)
                   THEN [min |-> IF ptr.min THEN arv_gc_float_get_min(nds, node)
                                 ELSE cell.min,
                         max |-> IF ptr.max THEN arv_gc_float_get_max(nds, node)
                                 ELSE cell.max]
                   ELSE cell,
         trace |-> f.trace]

\* ------------------------------------------------ feature actions
\* A setter: the tree becomes r.nodes.
Sets(call, r) ==
    /\ nodes' = r.nodes
    /\ Returned(call, "void", r.trace)
    /\ notified' = NoneNotified
    /\ UNCHANGED <<device, genicam, handlers, invoked>>

\* A getter: nothing but the result changes.
Gets(call, r) ==
    /\ Returned(call, r.value, r.trace)
    /\ notified' = NoneNotified
    /\ UNCHANGED <<device, genicam, nodes, handlers, invoked>>

ExecuteCommand ==
    \E feature \in Names :
        Sets([op |-> "execute_command", feature |-> feature],
             arv_device_execute_command(device, nodes, feature))

GetFeature ==
    \E feature \in Names :
        Gets([op |-> "get_feature", feature |-> feature],
             arv_device_get_feature(device, nodes, feature))

SetStringFeatureValue ==
    \E feature \in Names, value \in StrVals :
        Sets([op |-> "set_string", feature |-> feature, value |-> value],
             arv_device_set_string_feature_value(device, nodes, feature, value))

GetStringFeatureValue ==
    \E feature \in Names :
        Gets([op |-> "get_string", feature |-> feature],
             arv_device_get_string_feature_value(device, nodes, feature))

SetIntegerFeatureValue ==
    \E feature \in Names, value \in IntVals :
        Sets([op |-> "set_integer", feature |-> feature, value |-> value],
             arv_device_set_integer_feature_value(device, nodes, feature, value))

GetIntegerFeatureValue ==
    \E feature \in Names :
        Gets([op |-> "get_integer", feature |-> feature],
             arv_device_get_integer_feature_value(device, nodes, feature))

GetIntegerFeatureBounds ==
    \E feature \in Names, pmin \in BOOLEAN, pmax \in BOOLEAN :
        LET ptr == [min |-> pmin, max |-> pmax]
            cell == Uninitialized
        IN  Gets([op |-> "get_integer_bounds", feature |-> feature,
                  ptr |-> ptr, cell |-> cell],
                 arv_device_get_integer_feature_bounds(device, nodes, feature, ptr, cell))

SetFloatFeatureValue ==
    \E feature \in Names, value \in FloatVals :
        Sets([op |-> "set_float", feature |-> feature, value |-> value],
             arv_device_set_float_feature_value(device, nodes, feature, value))

GetFloatFeatureValue ==
    \E feature \in Names :
        Gets([op |-> "get_float", feature |-> feature],
             arv_device_get_float_feature_value(device, nodes, feature))

GetFloatFeatureBounds ==
    \E feature \in Names, pmin \in BOOLEAN, pmax \in BOOLEAN :
        LET ptr == [min |-> pmin, max |-> pmax]
            cell == Uninitialized
        IN  Gets([op |-> "get_float_bounds", feature |-> feature,
                  ptr |-> ptr, cell |-> cell],
                 arv_device_get_float_feature_bounds(device, nodes, feature, ptr, cell))

NextFeature ==
    \/ ExecuteCommand
    \/ GetFeature
    \/ SetStringFeatureValue
    \/ GetStringFeatureValue
    \/ SetIntegerFeatureValue
    \/ GetIntegerFeatureValue
    \/ GetIntegerFeatureBounds
    \/ SetFloatFeatureValue
    \/ GetFloatFeatureValue
    \/ GetFloatFeatureBounds

SpecFeature == Init /\ [][NextFeature]_vars

\* ----------------------------------------- the device virtual table
\* Each operator gives [value, trace] of the C function of the same name.  The
\* last parameter is what the concrete device's virtual function answers when
\* it is invoked: its gboolean result, the stream it creates, its XML data.

arv_device_create_stream(dev, callback, user_data, stream) ==
    IF ~ARV_IS_DEVICE(dev)
    THEN [value |-> "NULL", trace |-> <<>>]
    ELSE [value |-> stream,
          trace |-> <<[op |-> "create_stream", callback |-> callback,
                       user_data |-> user_data, result |-> stream]>>]

\* Mutant: the size > 0 check is dropped.
read_memory_any_size(dev, address, size, buffer, ok) ==
    IF ~ARV_IS_DEVICE(dev) \/ buffer = "NULL"
    THEN [value |-> FALSE, trace |-> <<>>]
    ELSE [value |-> ok,
          trace |-> <<[op |-> "read_memory", address |-> address, size |-> size,
                       buffer |-> buffer, result |-> ok]>>]

arv_device_read_memory(dev, address, size, buffer, ok) ==
    IF ~ARV_IS_DEVICE(dev) \/ buffer = "NULL" \/ ~(size > 0)
    THEN [value |-> FALSE, trace |-> <<>>]
    ELSE [value |-> ok,
          trace |-> <<[op |-> "read_memory", address |-> address, size |-> size,
                       buffer |-> buffer, result |-> ok]>>]

arv_device_write_memory(dev, address, size, buffer, ok) ==
    IF ~ARV_IS_DEVICE(dev) \/ buffer = "NULL" \/ ~(size > 0)
    THEN [value |-> FALSE, trace |-> <<>>]
    ELSE [value |-> ok,
          trace |-> <<[op |-> "write_memory", address |-> address, size |-> size,
                       buffer |-> buffer, result |-> ok]>>]

arv_device_read_register(dev, address, value, ok) ==
    IF ~ARV_IS_DEVICE(dev) \/ value = "NULL"
    THEN [value |-> FALSE, trace |-> <<>>]
    ELSE [value |-> ok,
          trace |-> <<[op |-> "read_register", address |-> address,
                       value |-> value, result |-> ok]>>]

\* Mutant: a failed write is tried once more.
write_register_retrying(dev, address, value, ok) ==
    LET call == [op |-> "write_register", address |-> address,
                 value |-> value, result |-> ok]
    IN  IF ~ARV_IS_DEVICE(dev)
        THEN [value |-> FALSE, trace |-> <<>>]
        ELSE [value |-> ok, trace |-> IF ok THEN <<call>> ELSE <<call, call>>]

arv_device_write_register(dev, address, value, ok) ==
    IF ~ARV_IS_DEVICE(dev)
    THEN [value |-> FALSE, trace |-> <<>>]
    ELSE [value |-> ok,
          trace |-> <<[op |-> "write_register", address |-> address,
                       value |-> value, result |-> ok]>>]

\* The class default installed by arv_device_class_init: no data, *size = 0.
get_genicam_xml_default == [data |-> "NULL", size |-> 0]

\* size: whether the size pointer is non-NULL; xml: what the virtual function
\* answers, [data, size].  value: the data pointer returned.
arv_device_get_genicam_xml(dev, size, xml) ==
    IF ~ARV_IS_DEVICE(dev) \/ ~size
    THEN [value |-> "NULL", trace |-> <<>>]
    ELSE [value |-> xml.data,
          trace |-> <<[op |-> "get_genicam_xml", result |-> xml]>>]

\* A call forwarded to the virtual table.
Forwards(call, r) ==
    /\ Returned(call, r.value, r.trace)
    /\ notified' = NoneNotified
    /\ UNCHANGED <<device, genicam, nodes, handlers, invoked>>

CreateStream ==
    \E callback \in {"cb", "NULL"}, stream \in {"stream", "NULL"} :
        Forwards([op |-> "create_stream", callback |-> callback, user_data |-> "data"],
                 arv_device_create_stream(device, callback, "data", stream))

ReadMemory ==
    \E address \in Addrs, size \in Sizes, buffer \in {"buf", "NULL"}, ok \in BOOLEAN :
        Forwards([op |-> "read_memory", address |-> address, size |-> size,
                  buffer |-> buffer],
                 arv_device_read_memory(device, address, size, buffer, ok))

WriteMemory ==
    \E address \in Addrs, size \in Sizes, buffer \in {"buf", "NULL"}, ok \in BOOLEAN :
        Forwards([op |-> "write_memory", address |-> address, size |-> size,
                  buffer |-> buffer],
                 arv_device_write_memory(device, address, size, buffer, ok))

ReadRegister ==
    \E address \in Addrs, value \in {"value", "NULL"}, ok \in BOOLEAN :
        Forwards([op |-> "read_register", address |-> address, value |-> value],
                 arv_device_read_register(device, address, value, ok))

WriteRegister ==
    \E address \in Addrs, value \in RegVals, ok \in BOOLEAN :
        Forwards([op |-> "write_register", address |-> address, value |-> value],
                 arv_device_write_register(device, address, value, ok))

GetGenicam ==
    Forwards([op |-> "get_genicam"], arv_device_get_genicam(device))

GetGenicamXml ==
    \E size \in BOOLEAN, xml \in {get_genicam_xml_default, [data |-> "xml", size |-> 3]} :
        Forwards([op |-> "get_genicam_xml", size |-> size],
                 arv_device_get_genicam_xml(device, size, xml))

NextDevice ==
    \/ CreateStream
    \/ ReadMemory
    \/ WriteMemory
    \/ ReadRegister
    \/ WriteRegister
    \/ GetGenicam
    \/ GetGenicamXml

SpecDevice == Init /\ [][NextDevice]_vars

\* ------------------------------------------------- control-lost signal
\* Mutant: the ARV_IS_DEVICE check is dropped.
emit_unchecked(dev, hs) == [o \in Observers |-> IF o \in hs THEN 1 ELSE 0]

\* The handlers run by one emission, each with the number of times it runs:
\* g_signal_emit runs every connected handler once.
arv_device_emit_control_lost_signal(dev, hs) ==
    IF ~ARV_IS_DEVICE(dev)
    THEN NoneNotified
    ELSE [o \in Observers |-> IF o \in hs THEN 1 ELSE 0]

EmitControlLostSignal ==
    LET ran == arv_device_emit_control_lost_signal(device, handlers) IN
    /\ \A o \in Observers : invoked[o] + ran[o] <= MaxInvoked
    /\ notified' = ran
    /\ invoked' = [o \in Observers |-> invoked[o] + ran[o]]
    /\ Returned([op |-> "emit_control_lost_signal"], "void", <<>>)
    /\ UNCHANGED <<device, genicam, nodes, handlers>>

\* A client connects a handler to "control-lost" of the device object.
Connect ==
    \E o \in Observers \ handlers :
        /\ handlers' = handlers \cup {o}
        /\ Returned([op |-> "connect", observer |-> o], "void", <<>>)
        /\ notified' = NoneNotified
        /\ UNCHANGED <<device, genicam, nodes, invoked>>

\* Control is taken again: whatever is lost from now on is a new episode.
NewEpisode ==
    /\ invoked' = NoneNotified
    /\ Returned([op |-> "new_episode"], "void", <<>>)
    /\ notified' = NoneNotified
    /\ UNCHANGED <<device, genicam, nodes, handlers>>

NextSignal ==
    \/ EmitControlLostSignal
    \/ Connect
    \/ NewEpisode

SpecSignal == Init /\ [][NextSignal \/ NextDevice]_vars

\* ------------------------------------------------------ whole device
Next ==
    \/ NextFeature
    \/ NextDevice
    \/ NextSignal

Spec == Init /\ [][Next]_vars

\* Every call is made on a NULL handle.
InitNull == Init /\ device = "NULL"

SpecNull == InitNull /\ [][Next]_vars

\* ================================================================ claims
FeatureOps == {"execute_command", "get_feature", "set_string", "get_string",
               "set_integer", "get_integer", "get_integer_bounds", "set_float",
               "get_float", "get_float_bounds"}
Mutators == {"execute_command", "set_string", "set_integer", "set_float"}

\* The call r is made on a valid device with a feature tree.
HasTree == device = "dev" /\ genicam = "gc"

\* The variant of the node the feature name of call r resolves to in tree nds.
VariantOf(nds, r) ==
    IF HasTree /\ r.op \in FeatureOps /\ r.feature \in DOMAIN nds
    THEN nds[r.feature].variant
    ELSE "None"

\* The feature name of call r is not in the tree.
Unknown(r) == r.op \in FeatureOps /\ r.feature \notin DOMAIN nodes

\* C1 as stated: for a feature name that is not in the tree, get_integer returns
\* 0, get_float returns 0.0, get_string returns the empty string, and the
\* setters and execute_command change no node.
C1_Original ==
    [][Unknown(req') =>
        /\ req'.op = "get_integer" => ret' = 0
        /\ req'.op = "get_float" => ret' = 0
        /\ req'.op = "get_string" => ret' = Str("")
        /\ req'.op \in Mutators => nodes' = nodes]_vars

\* C1 (amended): for a feature name that is not in the tree, get_integer returns
\* 0, get_float returns 0.0, get_string returns NULL (no string at all, not the
\* empty string), and the setters and execute_command change no node.
C1_UnknownFeature ==
    [][Unknown(req') =>
        /\ req'.op = "get_integer" => ret' = 0
        /\ req'.op = "get_float" => ret' = 0
        /\ req'.op = "get_string" => ret' = NullStr
        /\ req'.op \in Mutators => nodes' = nodes]_vars

C1_Witness ==
    /\ HasTree
    /\ nodes # InitNodes
    /\ req.op = "get_string"
    /\ req.feature = "Missing"
    /\ ret = NullStr

\* C2: integer access dispatches on Integer, Enumeration, Boolean and on nothing
\* else: set_integer stores the value in an Integer node, stores the underlying
\* value of an Enumeration node, stores the truth value in a Boolean node, and
\* changes nothing for Float, String and Command; get_integer reads the same
\* three and returns 0 for Float, String and Command.
C2_IntegerDispatch ==
    [][VariantOf(nodes, req') # "None" =>
        LET n == req'.feature
            k == VariantOf(nodes, req')
        IN  /\ req'.op = "set_integer" =>
                nodes' = CASE k \in {"Integer", "Enumeration"} ->
                                [nodes EXCEPT ![n].ival = req'.value]
                           [] k = "Boolean" ->
                                [nodes EXCEPT ![n].bval = (req'.value # 0)]
                           [] OTHER -> nodes
            /\ req'.op = "get_integer" =>
                ret' = CASE k \in {"Integer", "Enumeration"} -> nodes[n].ival
                         [] k = "Boolean" -> IF nodes[n].bval THEN 1 ELSE 0
                         [] OTHER -> 0]_vars

C2_Witness ==
    /\ HasTree
    /\ req.op = "get_integer"
    /\ req.feature = "PixelFormat"
    /\ ret = 1

\* C3: a mutating operation on a node of an incompatible variant changes no node
\* and returns normally: execute_command on a non-Command node, set_float on a
\* non-Float node, set_string on a node that is neither Enumeration nor String,
\* set_integer on a node that is not Integer, Enumeration or Boolean.
Incompatible(op, k) ==
    \/ op = "execute_command" /\ k # "Command"
    \/ op = "set_float" /\ k # "Float"
    \/ op = "set_string" /\ k \notin {"Enumeration", "String"}
    \/ op = "set_integer" /\ k \notin {"Integer", "Enumeration", "Boolean"}

C3_IncompatibleVariant ==
    [][(VariantOf(nodes, req') # "None" /\ Incompatible(req'.op, VariantOf(nodes, req')))
        => nodes' = nodes /\ ret' = "void"]_vars

C3_Witness ==
    /\ HasTree
    /\ nodes # InitNodes
    /\ req.op = "execute_command"
    /\ req.feature = "Width"

\* C4: on an Enumeration node the string view and the integer view agree:
\* after set_string(name, s) with s an entry, get_integer(name) returns the
\* value of entry s; after set_integer(name, v) with v the value of an entry,
\* get_string(name) returns the name of that entry.
C4_EnumerationViews ==
    VariantOf(nodes, req) = "Enumeration" =>
        /\ (req.op = "set_string" /\ req.value \in EntryNames) =>
              arv_device_get_integer_feature_value(device, nodes, req.feature).value
                  = EntryValue[req.value]
        /\ req.op = "set_integer" =>
              \A e \in EntryNames :
                  EntryValue[e] = req.value =>
                      arv_device_get_string_feature_value(device, nodes, req.feature).value
                          = Str(e)

C4_Witness ==
    /\ HasTree
    /\ req.op = "set_string"
    /\ req.feature = "PixelFormat"
    /\ req.value = "RGB8"
    /\ nodes["PixelFormat"].ival = 1

\* C5: on a Boolean node, after set_integer(name, v) get_integer(name) returns 1
\* if v is nonzero and 0 if v is zero; get_integer on a Boolean node returns
\* nothing but 0 or 1.
C5_BooleanCoercion ==
    VariantOf(nodes, req) = "Boolean" =>
        /\ req.op = "set_integer" =>
              arv_device_get_integer_feature_value(device, nodes, req.feature).value
                  = IF req.value # 0 THEN 1 ELSE 0
        /\ req.op = "get_integer" => ret \in {0, 1}

C5_Witness ==
    /\ HasTree
    /\ req.op = "set_integer"
    /\ req.feature = "ReverseX"
    /\ req.value = BigInt
    /\ nodes["ReverseX"].bval

\* C9: get_integer_bounds writes its outputs only for an Integer node, and then
\* they are the node's min and max; get_float_bounds writes only for a Float
\* node.  For an unknown name or another variant the caller's variables keep
\* the values they had before the call.
C9_BoundsWrittenOnlyOnMatch ==
    /\ req.op = "get_integer_bounds" =>
          IF VariantOf(nodes, req) = "Integer"
          THEN /\ req.ptr.min => ret.min = nodes[req.feature].min
               /\ req.ptr.max => ret.max = nodes[req.feature].max
          ELSE ret = req.cell
    /\ req.op = "get_float_bounds" =>
          IF VariantOf(nodes, req) = "Float"
          THEN /\ req.ptr.min => ret.min = nodes[req.feature].min
               /\ req.ptr.max => ret.max = nodes[req.feature].max
          ELSE ret = req.cell

C9_Witness ==
    /\ HasTree
    /\ req.op = "get_float_bounds"
    /\ req.feature = "Width"
    /\ req.ptr = [min |-> TRUE, max |-> TRUE]
    /\ ret = Uninitialized

\* C6: read_memory and write_memory with size 0 or a NULL buffer return FALSE
\* and invoke no virtual function; with a valid device, a buffer and size > 0
\* the virtual function of the same name is invoked.
C6_MemoryPreconditions ==
    req.op \in {"read_memory", "write_memory"} =>
        IF req.size = 0 \/ req.buffer = "NULL"
        THEN ret = FALSE /\ trace = <<>>
        ELSE device = "dev" => (Len(trace) = 1 /\ trace[1].op = req.op)

C6_Witness ==
    /\ device = "dev"
    /\ req.op = "write_memory"
    /\ req.size = 0
    /\ req.buffer = "buf"
    /\ ret = FALSE

\* C10: a read_register, write_register, read_memory, write_memory or
\* create_stream call whose preconditions hold invokes the virtual function of
\* the same name exactly once, with the same arguments, and returns its result
\* unchanged: a failure is returned as a failure and nothing is retried.
PreconditionsHold ==
    /\ device = "dev"
    /\ req.op \in {"read_memory", "write_memory"} => req.buffer # "NULL" /\ req.size > 0
    /\ req.op = "read_register" => req.value # "NULL"

C10_ForwardedOnce ==
    (req.op \in {"read_register", "write_register", "read_memory", "write_memory",
                 "create_stream"} /\ PreconditionsHold) =>
        /\ Len(trace) = 1
        /\ trace[1].op = req.op
        /\ ret = trace[1].result
        /\ \A a \in DOMAIN req : trace[1][a] = req[a]

C10_Witness ==
    /\ device = "dev"
    /\ req.op = "write_register"
    /\ req.value = 7
    /\ ret = FALSE
    /\ Len(trace) = 1

\* C7: every call on a NULL device returns its failure value (NULL, FALSE, 0,
\* 0.0, NULL string; bounds outputs untouched), invokes no virtual function,
\* changes no node and runs no signal handler.
NullDeviceReturn ==
    CASE req.op \in {"create_stream", "get_genicam", "get_genicam_xml", "get_feature"}
            -> ret = "NULL"
      [] req.op \in {"read_memory", "write_memory", "read_register", "write_register"}
            -> ret = FALSE
      [] req.op \in {"get_integer", "get_float"} -> ret = 0
      [] req.op = "get_string" -> ret = NullStr
      [] req.op \in {"get_integer_bounds", "get_float_bounds"} -> ret = req.cell
      [] OTHER -> ret = "void"

C7_NullDevice ==
    (device = "NULL" /\ req.op \notin {"none", "connect", "new_episode"}) =>
        /\ NullDeviceReturn
        /\ trace = <<>>
        /\ nodes = InitNodes
        /\ notified = NoneNotified
        /\ invoked = NoneNotified

C7_Witness ==
    /\ device = "NULL"
    /\ handlers = Observers
    /\ req.op = "emit_control_lost_signal"
    /\ notified = NoneNotified

====
